---- MODULE Spec2Model ----
(***************************************************************************)
(* Head-annotation tool: the shared annotation document, the HTTP endpoint *)
(* that stores it (GET / PUT with the if-match-updated-at precondition)    *)
(* and the browser-side StoreProvider that synchronises a local copy with  *)
(* it (bootstrap, poll, debounced write-back).                             *)
(*                                                                         *)
(* Timestamps: an ISO-8601 string produced by Date.toISOString() is        *)
(* modelled by its millisecond value, a positive integer; NoStamp (0)      *)
(* stands for null, undefined and the empty string, the values JavaScript  *)
(* treats as falsy.  A clock is read without advancing it: two reads in    *)
(* the same millisecond return the same stamp.                             *)
(***************************************************************************)
EXTENDS Integers, Sequences, FiniteSets, TLC

VARIABLES
    store,        \* the persisted document: <<>> (missing) or <<doc>>
    backend,      \* "local-file" | "blob" | "external"
    serverNow,    \* clock of the Next.js route (new Date() in route.ts)
    scriptNow,    \* clock of the external Apps Script (new Date() in doPost)
    epoch,        \* number of writes the store has taken (history)
    handlers,     \* one PUT handler invocation per id: its position and locals
    active,       \* the browser sessions (StoreProvider instances) that run
    clients,      \* per session: the reducer state, the refs and the timers
    net,          \* per session: its fetches in flight and their responses
    remoteWriters, \* who has written the store so far (history; 0: someone else)
    project,      \* the reducer's state when the reducer is followed on its own
    dispatched    \* the last operation on `project` and the state it met (history)

svars == <<store, backend, serverNow, scriptNow, epoch>>
cvars == <<active, clients, net, remoteWriters>>
rvars == <<project, dispatched>>
vars == <<store, backend, serverNow, scriptNow, epoch, handlers,
          active, clients, net, remoteWriters, project, dispatched>>

----------------------------------------------------------------------------
\* Bounds of the model

MaxTime == 4
MaxRequests == 2

----------------------------------------------------------------------------
\* Document model (src/lib/types.ts)

NoStamp == 0
NUM_LAYERS == 24
NUM_HEADS == 16

EmptyMap == [k \in {} |-> 0]

headKey(layer, head) ==
    IF layer = 2 /\ head = 5 THEN "L2H5"
    ELSE IF layer = 0 /\ head = 0 THEN "L0H0"
    ELSE "L?H?"

\* descriptions: Record<string, string>, kept as its entries in insertion
\* order (the order Object.entries walks them in).
HeadAnnotation(layer, head, tags, descriptions) ==
    [layer |-> layer, head |-> head, tags |-> tags, descriptions |-> descriptions]

ProjectData(annotations, tags, createdAt, updatedAt) ==
    [modelName |-> "Pythia-1.4B", numLayers |-> NUM_LAYERS, numHeads |-> NUM_HEADS,
     annotations |-> annotations, tags |-> tags,
     createdAt |-> createdAt, updatedAt |-> updatedAt]

\* The annotation of the bootstrap scenario: head L2H5 tagged reasoning/causal.
CausalAnnotation ==
    HeadAnnotation(2, 5, <<"reasoning/causal">>,
                   <<[tag |-> "reasoning/causal", desc |-> "causal head"]>>)

OtherAnnotation ==
    HeadAnnotation(0, 0, <<"syntax">>, <<[tag |-> "syntax", desc |-> "syntax head"]>>)

CausalDoc(createdAt, updatedAt) ==
    ProjectData((headKey(2, 5) :> CausalAnnotation), <<"reasoning/causal">>, createdAt, updatedAt)

OtherDoc(createdAt, updatedAt) ==
    ProjectData((headKey(0, 0) :> OtherAnnotation), <<"syntax">>, createdAt, updatedAt)

\* Date.parse of a stamp; null, "" and unparsable strings give 0.
toMillis(iso) ==
    IF iso = NoStamp THEN 0 ELSE iso

----------------------------------------------------------------------------
\* The endpoint (src/app/api/annotations/route.ts)

createEmptyProjectData(now) ==
    ProjectData(EmptyMap, <<>>, now, now)

hasExternalSync(b) == b = "external"

hasBlobToken(b) == b = "blob"

\* getUpdatedAt(readResult.status === "ok" ? readResult.data : null)
getUpdatedAt(st) ==
    IF st = <<>> THEN NoStamp ELSE st[1].updatedAt

\* The precondition checks of PUT, after the store was read.
PreconditionNoConflict(currentUpdatedAt, expectedUpdatedAt) ==
    IF currentUpdatedAt # NoStamp /\ expectedUpdatedAt = NoStamp THEN 428
    ELSE 200

PreconditionNotRequired(currentUpdatedAt, expectedUpdatedAt) ==
    IF currentUpdatedAt # NoStamp /\ expectedUpdatedAt # NoStamp
          /\ expectedUpdatedAt # currentUpdatedAt THEN 409
    ELSE 200

PreconditionCheck(currentUpdatedAt, expectedUpdatedAt) ==
    IF currentUpdatedAt # NoStamp /\ expectedUpdatedAt = NoStamp THEN 428
    ELSE IF currentUpdatedAt # NoStamp /\ expectedUpdatedAt # currentUpdatedAt THEN 409
    ELSE 200

\* payload = { ...validatedData, updatedAt: now, createdAt: ... }
StampPayload(data, now) ==
    [data EXCEPT !.updatedAt = now,
                 !.createdAt = IF TRUE THEN data.createdAt ELSE now]

\* The body of a GET response for a given store.
GetBody(st, now) ==
    IF st = <<>> THEN createEmptyProjectData(now) ELSE st[1]

\* doPost of the external script, run under its script lock: the outcome of
\* a put of `payload` with ifMatch against the current store.
doPostConflict(st, ifMatch) ==
    /\ ifMatch # NoStamp
    /\ st # <<>>
    /\ st[1].updatedAt # NoStamp
    /\ st[1].updatedAt # ifMatch

doPostPayload(payload, now) ==
    [payload EXCEPT !.createdAt = IF payload.createdAt # NoStamp THEN payload.createdAt ELSE now,
                    !.updatedAt = now]

----------------------------------------------------------------------------
\* PUT handler invocations

HandlerIds == 1..MaxRequests

IdleHandler ==
    [pc |-> "idle", valid |-> TRUE, body |-> createEmptyProjectData(NoStamp),
     expected |-> NoStamp, cur |-> NoStamp, readEpoch |-> 0, writeEpoch |-> 0,
     payload |-> <<>>, status |-> 0, respCur |-> NoStamp, respDoc |-> <<>>,
     after |-> {}]

\* The documents a client may propose, with the client's own stamp.
RequestBodies ==
    {CausalDoc(1, 3), createEmptyProjectData(1)}

\* The values of the if-match-updated-at header: none, the version the store
\* started with, or the version it holds now.
KnownVersions ==
    {NoStamp, 2, getUpdatedAt(store)}

\* Lines 331-362: the request arrives; its body is parsed and validated.
\* Invocations are numbered in the order of their arrival.
PutReceive(h) ==
    /\ handlers[h].pc = "idle"
    /\ \A g \in HandlerIds : g < h => handlers[g].pc # "idle"
    /\ \E valid \in BOOLEAN :
          LET done == {g \in HandlerIds : handlers[g].pc = "done"}
          IN  IF valid
              THEN \E body \in RequestBodies, expected \in KnownVersions :
                      handlers' = [handlers EXCEPT ![h] =
                          [handlers[h] EXCEPT !.pc = "read", !.body = body,
                                              !.expected = expected, !.after = done]]
              ELSE handlers' = [handlers EXCEPT ![h] =
                      [handlers[h] EXCEPT !.pc = "done", !.valid = FALSE,
                                          !.status = 400, !.after = done]]
    /\ UNCHANGED <<svars, cvars, rvars>>

\* Lines 364-389: readCurrentData() resolves, the precondition is checked
\* and the payload is stamped, up to the await of the write.
PutRead(h) ==
    /\ handlers[h].pc = "read"
    /\ LET cur == getUpdatedAt(store)
           verdict == PreconditionCheck(cur, handlers[h].expected)
           seen == [handlers[h] EXCEPT !.cur = cur, !.readEpoch = epoch]
       IN  IF verdict = 200
           THEN handlers' = [handlers EXCEPT ![h] =
                    [seen EXCEPT !.pc = "write",
                                 !.payload = <<StampPayload(handlers[h].body, serverNow)>>]]
           ELSE handlers' = [handlers EXCEPT ![h] =
                    [seen EXCEPT !.pc = "done", !.status = verdict, !.respCur = cur]]
    /\ UNCHANGED <<svars, cvars, rvars>>

\* Lines 399-405: writeToBlob / writeToLocalFile, then the 200 response.
PutWriteFile(h) ==
    /\ handlers[h].pc = "write"
    /\ ~hasExternalSync(backend)
    /\ store' = handlers[h].payload
    /\ epoch' = epoch + 1
    /\ handlers' = [handlers EXCEPT ![h].pc = "done", ![h].status = 200,
                                    ![h].respDoc = handlers[h].payload,
                                    ![h].writeEpoch = epoch + 1]
    /\ UNCHANGED <<backend, serverNow, scriptNow, cvars, rvars>>

\* Lines 391-398 and 258-299 with doPost: the external script compares and
\* writes under its lock; the route answers with its own payload.
PutWriteExternal(h) ==
    /\ handlers[h].pc = "write"
    /\ hasExternalSync(backend)
    /\ IF doPostConflict(store, handlers[h].expected)
       THEN /\ handlers' = [handlers EXCEPT ![h].pc = "done", ![h].status = 409,
                                            ![h].respCur = store[1].updatedAt]
            /\ UNCHANGED <<store, epoch>>
       ELSE /\ store' = <<doPostPayload(handlers[h].payload[1], scriptNow)>>
            /\ epoch' = epoch + 1
            /\ handlers' = [handlers EXCEPT ![h].pc = "done", ![h].status = 200,
                                            ![h].respDoc = handlers[h].payload,
                                            ![h].writeEpoch = epoch + 1]
    /\ UNCHANGED <<backend, serverNow, scriptNow, cvars, rvars>>

\* Lines 406-408: a read or write that throws is answered with 500.
PutFail(h) ==
    /\ handlers[h].pc \in {"read", "write"}
    /\ handlers' = [handlers EXCEPT ![h].pc = "done", ![h].status = 500]
    /\ UNCHANGED <<svars, cvars, rvars>>

TickServer ==
    /\ serverNow < MaxTime
    /\ serverNow' = serverNow + 1
    /\ UNCHANGED <<store, backend, scriptNow, epoch, handlers, cvars, rvars>>

TickScript ==
    /\ hasExternalSync(backend)
    /\ scriptNow < MaxTime
    /\ scriptNow' = scriptNow + 1
    /\ UNCHANGED <<store, backend, serverNow, epoch, handlers, cvars, rvars>>


----------------------------------------------------------------------------
\* The reducer (src/unnamed/part_001, function reducer)

Range(seq) == {seq[i] : i \in 1..Len(seq)}

createEmptyProject(now) ==
    ProjectData(EmptyMap, <<>>, now, now)

CollectTagsUnchecked(tags, annTags) ==
    tags \o annTags

\* for (const tag of action.annotation.tags) if (!newTags.includes(tag)) push
CollectTags(tags, annTags) ==
    LET F[i \in 0..Len(annTags)] ==
            IF i = 0 THEN tags
            ELSE IF annTags[i] \in Range(F[i - 1]) THEN F[i - 1]
                 ELSE Append(F[i - 1], annTags[i])
    IN  F[Len(annTags)]

SetAnnotation(state, key, annotation, now) ==
    [state EXCEPT
        !.annotations = [k \in DOMAIN state.annotations \cup {key} |->
                            IF k = key THEN annotation ELSE state.annotations[k]],
        !.tags = CollectTags(state.tags, annotation.tags),
        !.updatedAt = now]

DeleteAnnotation(state, key, now) ==
    [state EXCEPT
        !.annotations = [k \in DOMAIN state.annotations \ {key} |-> state.annotations[k]],
        !.updatedAt = now]

\* Strings whose characters matter (tag and topic names handed to ADD_MAJOR,
\* DELETE_MAJOR, MOVE_TAG_TO_MAJOR) are sequences of one-character strings.
Includes(seq, x) == \E i \in 1..Len(seq) : seq[i] = x

IndexOf(seq, x) == CHOOSE i \in 1..Len(seq) : seq[i] = x /\ \A j \in 1..(i - 1) : seq[j] # x

\* Array.prototype.filter, the callback given as the set of values it keeps
FilterSeq(seq, kept) ==
    LET F[i \in 0..Len(seq)] ==
            IF i = 0 THEN <<>>
            ELSE IF seq[i] \in kept THEN Append(F[i - 1], seq[i]) ELSE F[i - 1]
    IN  F[Len(seq)]

\* String.prototype.trim
Trim(str) ==
    LET blank(i) == str[i] = " "
        first == IF \A i \in 1..Len(str) : blank(i) THEN Len(str) + 1
                 ELSE CHOOSE i \in 1..Len(str) : ~blank(i) /\ \A j \in 1..(i - 1) : blank(j)
        last == IF \A i \in 1..Len(str) : blank(i) THEN Len(str)
                ELSE CHOOSE i \in 1..Len(str) : ~blank(i) /\ \A j \in (i + 1)..Len(str) : blank(j)
    IN  SubSeq(str, first, last)

\* String.prototype.toLowerCase on the letters in use
LowerChar(ch) ==
    CASE ch = "A" -> "a"
      [] ch = "B" -> "b"
      [] ch = "X" -> "x"
      [] OTHER -> ch

ToLowerCase(str) == [i \in 1..Len(str) |-> LowerChar(str[i])]

\* str.replace(/\s+/g, "-"): every run of blanks becomes one hyphen
ReplaceBlankRuns(str) ==
    LET F[i \in 0..Len(str)] ==
            IF i = 0 THEN <<>>
            ELSE IF str[i] # " " THEN Append(F[i - 1], str[i])
                 ELSE IF i > 1 /\ str[i - 1] = " " THEN F[i - 1]
                      ELSE Append(F[i - 1], "-")
    IN  F[Len(str)]

normalizeCategoryPart(input) ==
    ReplaceBlankRuns(ToLowerCase(Trim(input)))

\* parseTag: split at the first "/"; minor is <<>> for null
parseTag(tag) ==
    LET cut == IF Includes(tag, "/") THEN IndexOf(tag, "/") ELSE Len(tag) + 1
        majorRaw == SubSeq(tag, 1, cut - 1)
        minorRaw == Trim(SubSeq(tag, cut + 1, Len(tag)))
    IN  [major |-> normalizeCategoryPart(majorRaw),
         minor |-> IF minorRaw # <<>> THEN normalizeCategoryPart(minorRaw) ELSE <<>>]

\* String.prototype.startsWith
StartsWith(str, prefix) ==
    Len(str) >= Len(prefix) /\ SubSeq(str, 1, Len(prefix)) = prefix

\* obj[tag] = desc on a Record kept as its entries: an existing key keeps its
\* place, a new key goes last.
SetEntry(entries, tag, desc) ==
    IF \E i \in 1..Len(entries) : entries[i].tag = tag
    THEN [i \in 1..Len(entries) |->
              IF entries[i].tag = tag THEN [tag |-> tag, desc |-> desc] ELSE entries[i]]
    ELSE Append(entries, [tag |-> tag, desc |-> desc])

\* !obj[tag]: the key is missing or holds the empty string
NoEntry(entries, tag) ==
    \A i \in 1..Len(entries) : entries[i].tag = tag => entries[i].desc = ""

\* case "ADD_TAG"
AddTag(state, tag, now) ==
    IF Includes(state.tags, tag) THEN state
    ELSE [state EXCEPT !.tags = Append(state.tags, tag), !.updatedAt = now]

\* case "ADD_MAJOR"
AddMajor(state, majorInput, now) ==
    LET major == normalizeCategoryPart(majorInput)
    IN  IF major = <<>> \/ Includes(state.tags, major) THEN state
        ELSE [state EXCEPT !.tags = Append(state.tags, major), !.updatedAt = now]

\* case "REMOVE_TAG"
RemoveTag(state, tag, now) ==
    LET Keep == {t \in Range(state.tags) : t # tag}
    IN  [state EXCEPT !.tags = FilterSeq(state.tags, Keep), !.updatedAt = now]

\* case "DELETE_MAJOR"
DeleteMajor(state, majorInput, now) ==
    LET major == normalizeCategoryPart(majorInput)
        removePrefix == Append(major, "/")
        removedTags == {t \in Range(state.tags) : t = major \/ StartsWith(t, removePrefix)}
        Keep(tags) == {t \in Range(tags) : t \notin removedTags}
        KeepEntry(entries) == {e \in Range(entries) : e.tag \notin removedTags}
    IN  IF major = <<>> THEN state
        ELSE IF removedTags = {} THEN state
        ELSE [state EXCEPT
                !.tags = FilterSeq(state.tags, Keep(state.tags)),
                !.annotations = [k \in DOMAIN state.annotations |->
                    [state.annotations[k] EXCEPT
                        !.tags = FilterSeq(@, Keep(@)),
                        !.descriptions = FilterSeq(@, KeepEntry(@))]],
                !.updatedAt = now]

\* MOVE_TAG_TO_MAJOR, the descriptions of one annotation (lines 225-232)
MoveDescriptions(entries, tag, nextTag) ==
    LET F[i \in 0..Len(entries)] ==
            IF i = 0 THEN <<>>
            ELSE IF entries[i].tag = tag
                 THEN IF NoEntry(F[i - 1], nextTag)
                      THEN SetEntry(F[i - 1], nextTag, entries[i].desc)
                      ELSE F[i - 1]
                 ELSE SetEntry(F[i - 1], entries[i].tag, entries[i].desc)
    IN  F[Len(entries)]

\* case "MOVE_TAG_TO_MAJOR"
MoveTagToMajor(state, tag, nextMajorInput, now) ==
    LET minor == parseTag(tag).minor
        nextMajor == normalizeCategoryPart(nextMajorInput)
        nextTag == nextMajor \o <<"/">> \o minor
        NotOld == {t \in Range(state.tags) : t # tag}
        IsNew == {t \in {nextMajor, nextTag} :
                    t # <<>> /\ ~Includes(state.tags, t) /\ t # tag}
        Remap(tags) == [i \in 1..Len(tags) |-> IF tags[i] = tag THEN nextTag ELSE tags[i]]
        Dedupe(tags) ==
            LET F[i \in 0..Len(tags)] ==
                    IF i = 0 THEN <<>>
                    ELSE IF IndexOf(tags, tags[i]) = i THEN Append(F[i - 1], tags[i])
                         ELSE F[i - 1]
            IN  F[Len(tags)]
    IN  IF minor = <<>> \/ nextMajor = <<>> THEN state
        ELSE IF nextTag = tag THEN state
        ELSE [state EXCEPT
                !.tags = FilterSeq(state.tags, NotOld)
                            \o FilterSeq(<<nextMajor, nextTag>>, IsNew),
                !.annotations = [k \in DOMAIN state.annotations |->
                    [state.annotations[k] EXCEPT
                        !.tags = Dedupe(Remap(state.annotations[k].tags)),
                        !.descriptions =
                            MoveDescriptions(state.annotations[k].descriptions, tag, nextTag)]],
                !.updatedAt = now]

ImportLocalKeepsStamp(data, now) ==
    [data EXCEPT !.updatedAt = IF data.updatedAt # NoStamp THEN data.updatedAt ELSE now,
                 !.createdAt = IF data.createdAt # NoStamp THEN data.createdAt ELSE now]

\* case "IMPORT_LOCAL_DATA": updatedAt: now
ImportLocalData(data, now) ==
    [data EXCEPT !.updatedAt = now,
                 !.createdAt = IF data.createdAt # NoStamp THEN data.createdAt ELSE now]

ImportDataRestamped(data, now) ==
    [data EXCEPT !.updatedAt = now,
                 !.createdAt = IF data.createdAt # NoStamp THEN data.createdAt ELSE now]

\* case "IMPORT_DATA": updatedAt: action.data.updatedAt || now
ImportData(data, now) ==
    [data EXCEPT !.updatedAt = IF data.updatedAt # NoStamp THEN data.updatedAt ELSE now,
                 !.createdAt = IF data.createdAt # NoStamp THEN data.createdAt ELSE now]

reducer(state, action, now) ==
    CASE action.type = "SET_ANNOTATION" ->
            SetAnnotation(state, action.key, action.annotation, now)
      [] action.type = "DELETE_ANNOTATION" ->
            DeleteAnnotation(state, action.key, now)
      [] action.type = "ADD_TAG" ->
            AddTag(state, action.tag, now)
      [] action.type = "ADD_MAJOR" ->
            AddMajor(state, action.major, now)
      [] action.type = "REMOVE_TAG" ->
            RemoveTag(state, action.tag, now)
      [] action.type = "DELETE_MAJOR" ->
            DeleteMajor(state, action.major, now)
      [] action.type = "MOVE_TAG_TO_MAJOR" ->
            MoveTagToMajor(state, action.tag, action.nextMajor, now)
      [] action.type = "IMPORT_DATA" ->
            ImportData(action.data, now)
      [] action.type = "IMPORT_LOCAL_DATA" ->
            ImportLocalData(action.data, now)
      [] action.type = "RESET" ->
            createEmptyProject(now)
      [] OTHER -> state

----------------------------------------------------------------------------
\* StoreProvider (src/unnamed/part_001, lines 271-442)

MaxEdits == 1

\* One session is followed; the others appear as OtherWriter.
Clients == {1}

\* loadFromStorage(): null when nothing is stored
loadFromStorage(ls) == ls

hasMeaningfulData(data) ==
    DOMAIN data.annotations # {} \/ Len(data.tags) > 0

NewRequest(purpose, body, expected) ==
    [purpose |-> purpose, body |-> body, expected |-> expected,
     localData |-> <<>>, data |-> <<>>, stage |-> "sent", resp |-> <<>>,
     cur |-> NoStamp, afterConflict |-> FALSE, viaConflict |-> FALSE]

IsPut(r) == r.purpose \in {"wb", "bootput", "seed"}

\* The browser's clock.
clientNow(c) == serverNow

RunEffectsNoCancel(cl, newDoc) ==
    [cl EXCEPT !.doc = newDoc,
               !.lsTimer = cl.lsTimer \o <<newDoc>>,
               !.wbTimer = IF cl.isInitialMount \/ cl.syncing THEN cl.wbTimer
                           ELSE cl.wbTimer \o <<newDoc>>]

RunEffectsIgnoringFlag(cl, newDoc) ==
    [cl EXCEPT !.doc = newDoc,
               !.lsTimer = <<newDoc>>,
               !.wbTimer = IF cl.isInitialMount THEN <<>> ELSE <<newDoc>>]

\* A render with a new state object: the effects that depend on state run
\* again; each clears its pending timer and arms a new one, the write-back
\* effect only when isSyncingFromServer is not set (lines 318-350).
RunEffects(cl, newDoc) ==
    [cl EXCEPT !.doc = newDoc,
               !.lsTimer = <<newDoc>>,
               !.wbTimer = IF cl.isInitialMount \/ cl.syncing THEN <<>> ELSE <<newDoc>>]

\* applyRemoteData (lines 290-296); `unreconciled` is history: the version a
\* Conflict reported that this session has not adopted since.
applyRemoteData(cl, data, now) ==
    LET flagged == [cl EXCEPT !.syncing = TRUE, !.resetPending = TRUE,
                              !.unreconciled =
                                  IF cl.unreconciled # <<>>
                                        /\ toMillis(data.updatedAt) >= toMillis(cl.unreconciled[1])
                                  THEN <<>> ELSE cl.unreconciled]
    IN  RunEffects(flagged, reducer(cl.doc, [type |-> "IMPORT_DATA", data |-> data], now))

ShouldAdoptOrEqual(remoteUpdated, lastSeenRemote) ==
    remoteUpdated >= lastSeenRemote

\* if (remoteUpdated > lastSeenRemote) applyRemoteData(remote)
ShouldAdopt(remoteUpdated, lastSeenRemote) ==
    remoteUpdated > lastSeenRemote

syncFromServerNoSkip(cl, remote, now) ==
    LET adopted == IF toMillis(remote.updatedAt) > toMillis(cl.lastSeen)
                   THEN applyRemoteData(cl, remote, now)
                   ELSE cl
    IN  [adopted EXCEPT !.lastSeen = remote.updatedAt]

syncFromServerStampOnAdopt(cl, remote, now) ==
    IF hasMeaningfulData(cl.doc) /\ toMillis(cl.doc.updatedAt) > toMillis(cl.lastSeen)
    THEN cl
    ELSE IF toMillis(remote.updatedAt) > toMillis(cl.lastSeen)
         THEN [applyRemoteData(cl, remote, now) EXCEPT !.lastSeen = remote.updatedAt]
         ELSE cl

\* syncFromServer after loadDefaultProject() returned `remote` (lines 303-315)
syncFromServerApply(cl, remote, now) ==
    IF hasMeaningfulData(cl.doc) /\ toMillis(cl.doc.updatedAt) > toMillis(cl.lastSeen)
    THEN cl
    ELSE LET adopted == IF ShouldAdopt(toMillis(remote.updatedAt), toMillis(cl.lastSeen))
                        THEN applyRemoteData(cl, remote, now)
                        ELSE cl
         IN  [adopted EXCEPT !.lastSeen = remote.updatedAt]

OwnKey(c) == IF c = 1 THEN headKey(2, 5) ELSE headKey(0, 0)

OwnAnnotation(c) == IF c = 1 THEN CausalAnnotation ELSE OtherAnnotation

UserActions(c) ==
    {[type |-> "SET_ANNOTATION", key |-> OwnKey(c), annotation |-> OwnAnnotation(c)],
     [type |-> "DELETE_ANNOTATION", key |-> OwnKey(c), annotation |-> OwnAnnotation(c)]}

\* A fetch leaves; each asynchronous sequence of a session (bootstrap, poll,
\* write-back) has at most one fetch outstanding.
Send(c, r) ==
    /\ \A q \in net[c] : q.purpose # r.purpose
    /\ net' = [net EXCEPT ![c] = @ \cup {r}]

\* First render: the effects run in order (lines 282-435): the local-save
\* effect clears isInitialMount, the write-back effect arms its timer, the
\* bootstrap effect reads local storage and fetches the remote document.
Mount(c) ==
    /\ c \in active
    /\ ~clients[c].mounted
    /\ clients' = [clients EXCEPT ![c] =
            [clients[c] EXCEPT !.mounted = TRUE,
                               !.isInitialMount = FALSE,
                               !.wbTimer = IF clients[c].syncing THEN <<>>
                                           ELSE <<clients[c].doc>>]]
    /\ Send(c, [NewRequest("boot", <<>>, NoStamp) EXCEPT
                    !.localData = loadFromStorage(clients[c].ls)])
    /\ UNCHANGED <<svars, handlers, active, remoteWriters, rvars>>

\* dispatch of a user action (head-edit dialog, sidebar), at most `limit`
\* of them in a session
Edit(c, limit) ==
    /\ c \in active
    /\ clients[c].mounted
    /\ clients[c].edits < limit
    /\ \E action \in UserActions(c) :
          /\ action.type = "DELETE_ANNOTATION" => action.key \in DOMAIN clients[c].doc.annotations
          /\ clients' = [clients EXCEPT ![c] =
                [RunEffects(clients[c], reducer(clients[c].doc, action, clientNow(c)))
                    EXCEPT !.edits = @ + 1]]
    /\ UNCHANGED <<svars, handlers, active, net, remoteWriters, rvars>>

UserEdit(c) == Edit(c, MaxEdits)

\* window.setTimeout(() => { isSyncingFromServer.current = false }, 0): the
\* zero-delay timer runs before the session's other timers and before its
\* fetches resolve; only a user event may come first.
FlagReset(c) ==
    /\ c \in active
    /\ clients[c].resetPending
    /\ clients' = [clients EXCEPT ![c].resetPending = FALSE, ![c].syncing = FALSE]
    /\ UNCHANGED <<svars, handlers, active, net, remoteWriters, rvars>>

\* setTimeout(() => saveToStorage(state), LOCAL_STORAGE_DEBOUNCE_MS)
LsFire(c) ==
    /\ c \in active
    /\ ~clients[c].resetPending
    /\ clients[c].lsTimer # <<>>
    /\ clients' = [clients EXCEPT ![c].ls = clients[c].lsTimer, ![c].lsTimer = <<>>]
    /\ UNCHANGED <<svars, handlers, active, net, remoteWriters, rvars>>

WbUnconditional(cl) ==
    NoStamp

WbExpectedOwnStamp(cl) ==
    cl.doc.updatedAt

\* saveToServer(state, lastServerUpdateAt.current): the precondition
WbExpected(cl) ==
    cl.lastSeen

\* The write-back timer fires (lines 329-335) with the state it captured;
\* SERVER_SAVE_DEBOUNCE_MS > LOCAL_STORAGE_DEBOUNCE_MS, so the local-save
\* timer armed by the same render has fired before.
WbFire(c) ==
    /\ c \in active
    /\ ~clients[c].resetPending
    /\ clients[c].lsTimer = <<>>
    /\ clients[c].wbTimer # <<>>
    /\ LET state == clients[c].wbTimer[1]
       IN  IF toMillis(state.updatedAt) <= toMillis(clients[c].lastSeen)
           THEN UNCHANGED net
           ELSE Send(c, [NewRequest("wb", <<state>>, WbExpected(clients[c])) EXCEPT
                            !.afterConflict = clients[c].unreconciled # <<>>])
    /\ clients' = [clients EXCEPT ![c].wbTimer = <<>>]
    /\ UNCHANGED <<svars, handlers, active, remoteWriters, rvars>>

\* syncFromServer up to its fetch (lines 298-300)
StartPoll(c, viaConflict) ==
    /\ ~clients[c].resetPending
    /\ clients[c].bootDone
    /\ Send(c, [NewRequest("poll", <<>>, NoStamp) EXCEPT !.viaConflict = viaConflict])

\* window.setInterval(..., SYNC_INTERVAL_MS)
PollInterval(c) ==
    /\ c \in active
    /\ clients[c].mounted
    /\ StartPoll(c, FALSE)
    /\ UNCHANGED <<svars, handlers, active, clients, remoteWriters, rvars>>

\* visibilitychange with document.visibilityState === "visible"
PollVisible(c) ==
    /\ c \in active
    /\ clients[c].mounted
    /\ StartPoll(c, FALSE)
    /\ UNCHANGED <<svars, handlers, active, clients, remoteWriters, rvars>>

\* The endpoint answers a GET (route.ts 301-329).
ServeGet(c) ==
    /\ \E r \in net[c] :
          /\ r.stage = "sent"
          /\ ~IsPut(r)
          /\ net' = [net EXCEPT ![c] = (@ \ {r}) \cup
                        {[r EXCEPT !.stage = "ok", !.resp = <<GetBody(store, serverNow)>>]}]
    /\ UNCHANGED <<svars, handlers, active, clients, remoteWriters, rvars>>

\* The endpoint answers a PUT (route.ts 331-409) on the file backend, one
\* request at a time.
ServePut(c) ==
    /\ \E r \in net[c] :
          /\ r.stage = "sent"
          /\ IsPut(r)
          /\ LET cur == getUpdatedAt(store)
                 verdict == PreconditionCheck(cur, r.expected)
                 payload == StampPayload(r.body[1], serverNow)
             IN  IF verdict = 200
                 THEN /\ store' = <<payload>>
                      /\ remoteWriters' = remoteWriters \cup {c}
                      /\ net' = [net EXCEPT ![c] = (@ \ {r}) \cup
                                    {[r EXCEPT !.stage = "ok", !.resp = <<payload>>]}]
                 ELSE /\ net' = [net EXCEPT ![c] = (@ \ {r}) \cup
                                    {[r EXCEPT !.stage = "conflict", !.cur = cur]}]
                      /\ UNCHANGED <<store, remoteWriters>>
    /\ UNCHANGED <<backend, serverNow, scriptNow, epoch, handlers, active, clients, rvars>>

\* What a continuation leaves behind. After the provider's cleanup ran
\* (c is no longer active) a dispatch renders nothing and isCancelled keeps
\* the finally block from setting bootstrapComplete; assignments to the ref
\* lastServerUpdateAt are not guarded.
Commit(c, before, after) ==
    IF c \in active THEN after
    ELSE [before EXCEPT !.lastSeen = after.lastSeen,
                        !.unreconciled = after.unreconciled]

BootFinallySkipped(cl) ==
    cl

\* finally { bootstrapComplete.current = true } (lines 397-401)
BootFinally(cl) ==
    [cl EXCEPT !.bootDone = TRUE]

BootPutUnconditional(data) == NoStamp

\* saveToServer(currentLocal, data.updatedAt || null): the precondition
BootPutExpected(data) ==
    data.updatedAt

BootConflictKeepsFetched(currentUpdatedAt, data) == data.updatedAt

\* lastServerUpdateAt after a rejected bootstrap write (lines 371-377)
BootConflictLastSeen(currentUpdatedAt, data) ==
    IF currentUpdatedAt # NoStamp THEN currentUpdatedAt ELSE data.updatedAt

\* Bootstrap after `await loadDefaultProject()` (lines 358-396); `outcome`
\* is "ok" with the response r carries, or "error" (null was returned).
OnBoot(c, r, outcome) ==
        /\ ~clients[c].resetPending
        /\ LET cl == clients[c]
               rest == net[c] \ {r}
           IN  IF c \notin active
               THEN /\ net' = [net EXCEPT ![c] = rest]
                    /\ UNCHANGED clients
               ELSE IF outcome = "ok"
               THEN LET data == r.resp[1]
                    IN  IF hasMeaningfulData(cl.doc)
                              /\ toMillis(cl.doc.updatedAt) > toMillis(data.updatedAt)
                        THEN /\ net' = [net EXCEPT ![c] = rest \cup
                                    {[NewRequest("bootput", <<cl.doc>>, BootPutExpected(data))
                                        EXCEPT !.localData = r.localData, !.data = <<data>>]}]
                             /\ UNCHANGED clients
                        ELSE /\ clients' = [clients EXCEPT ![c] =
                                    BootFinally([applyRemoteData(cl, data, clientNow(c))
                                                    EXCEPT !.lastSeen = data.updatedAt])]
                             /\ net' = [net EXCEPT ![c] = rest]
               ELSE /\ net' = [net EXCEPT ![c] = rest \cup
                            {[NewRequest("seed",
                                  IF r.localData # <<>> THEN r.localData
                                  ELSE <<createEmptyProject(clientNow(c))>>, NoStamp)
                                EXCEPT !.localData = r.localData]}]
                    /\ UNCHANGED clients
        /\ UNCHANGED <<svars, handlers, active, remoteWriters, rvars>>

BootResponse(c) ==
    \E r \in net[c] : r.purpose = "boot" /\ r.stage = "ok" /\ OnBoot(c, r, "ok")

\* Bootstrap after `await saveToServer(currentLocal, data.updatedAt)`
\* (lines 365-381), then the finally block.
OnBootPut(c, r, outcome) ==
        /\ ~clients[c].resetPending
        /\ LET cl == clients[c]
               after ==
                   CASE outcome = "ok" ->
                          [applyRemoteData(cl, r.resp[1], clientNow(c))
                              EXCEPT !.lastSeen = r.resp[1].updatedAt]
                     [] outcome = "conflict" ->
                          [cl EXCEPT !.lastSeen = BootConflictLastSeen(r.cur, r.data[1])]
                     [] OTHER ->
                          [cl EXCEPT !.lastSeen = r.data[1].updatedAt]
           IN  clients' = [clients EXCEPT ![c] = Commit(c, cl, BootFinally(after))]
        /\ net' = [net EXCEPT ![c] = @ \ {r}]
        /\ UNCHANGED <<svars, handlers, active, remoteWriters, rvars>>

BootPutResponse(c) ==
    \E r \in net[c] :
        r.purpose = "bootput" /\ r.stage # "sent" /\ OnBootPut(c, r, r.stage)

\* Bootstrap after `await saveToServer(localData || createEmptyProject(), null)`
\* (lines 388-392), then the finally block.
OnSeed(c, r, outcome) ==
        /\ ~clients[c].resetPending
        /\ LET cl == clients[c]
               after == IF outcome = "ok"
                        THEN [applyRemoteData(cl, r.resp[1], clientNow(c))
                                 EXCEPT !.lastSeen = r.resp[1].updatedAt]
                        ELSE cl
           IN  clients' = [clients EXCEPT ![c] = Commit(c, cl, BootFinally(after))]
        /\ net' = [net EXCEPT ![c] = @ \ {r}]
        /\ UNCHANGED <<svars, handlers, active, remoteWriters, rvars>>

SeedResponse(c) ==
    \E r \in net[c] :
        r.purpose = "seed" /\ r.stage # "sent" /\ OnSeed(c, r, r.stage)

\* syncFromServer after its fetch (lines 300-315)
OnPoll(c, r, outcome) ==
        /\ ~clients[c].resetPending
        /\ clients' = [clients EXCEPT ![c] =
                IF outcome = "ok"
                THEN Commit(c, clients[c],
                            syncFromServerApply(clients[c], r.resp[1], clientNow(c)))
                ELSE clients[c]]
        /\ net' = [net EXCEPT ![c] = @ \ {r}]
        /\ UNCHANGED <<svars, handlers, active, remoteWriters, rvars>>

PollResponse(c) ==
    \E r \in net[c] : r.purpose = "poll" /\ r.stage = "ok" /\ OnPoll(c, r, "ok")

\* The write-back after `await saveToServer(state, lastServerUpdateAt.current)`
\* (lines 336-346).
OnWb(c, r, outcome) ==
        /\ ~clients[c].resetPending
        /\ LET cl == clients[c]
               rest == net[c] \ {r}
           IN  CASE outcome = "ok" ->
                      /\ clients' = [clients EXCEPT ![c] =
                              Commit(c, cl, [applyRemoteData(cl, r.resp[1], clientNow(c))
                                                EXCEPT !.lastSeen = r.resp[1].updatedAt])]
                      /\ net' = [net EXCEPT ![c] = rest]
                 [] outcome = "conflict" ->
                      /\ clients' = [clients EXCEPT ![c] =
                              [cl EXCEPT !.lastSeen = IF r.cur # NoStamp THEN r.cur ELSE @,
                                         !.unreconciled = <<r.cur>>]]
                      /\ IF cl.bootDone
                         THEN net' = [net EXCEPT ![c] = rest \cup
                                  {[NewRequest("poll", <<>>, NoStamp) EXCEPT !.viaConflict = TRUE]}]
                         ELSE net' = [net EXCEPT ![c] = rest]
                 [] OTHER ->
                      /\ net' = [net EXCEPT ![c] = rest]
                      /\ UNCHANGED clients
        /\ UNCHANGED <<svars, handlers, active, remoteWriters, rvars>>

WbResponse(c) ==
    \E r \in net[c] : r.purpose = "wb" /\ r.stage # "sent" /\ OnWb(c, r, r.stage)

\* A fetch rejects or the endpoint answers 5xx: loadDefaultProject returns
\* null, saveToServer returns { kind: "error" }, and the awaiting code goes on.
NetFail(c) ==
    \E r \in net[c] :
        /\ r.stage = "sent"
        /\ CASE r.purpose = "boot" -> OnBoot(c, r, "error")
             [] r.purpose = "bootput" -> OnBootPut(c, r, "error")
             [] r.purpose = "seed" -> OnSeed(c, r, "error")
             [] r.purpose = "poll" -> OnPoll(c, r, "error")
             [] OTHER -> OnWb(c, r, "error")

\* Another session (a second tab, a server-side updater) gets a write
\* accepted: the store takes its document, stamped by the endpoint.
OtherWriter ==
    /\ store # <<OtherDoc(1, serverNow)>>
    /\ store' = <<StampPayload(OtherDoc(1, serverNow), serverNow)>>
    /\ remoteWriters' = remoteWriters \cup {0}
    /\ UNCHANGED <<backend, serverNow, scriptNow, epoch, handlers, active, clients, net, rvars>>

Tick ==
    /\ serverNow < MaxTime
    /\ serverNow' = serverNow + 1
    /\ UNCHANGED <<store, backend, scriptNow, epoch, handlers, cvars, rvars>>

\* What local storage may hold at start: nothing, an empty project, or the
\* annotated project, older or newer than the remote document.
LocalCopies ==
    {<<>>, <<createEmptyProject(1)>>, <<CausalDoc(1, 1)>>, <<CausalDoc(1, 3)>>}

\* useReducer(reducer, null, () => loadFromStorage() || createEmptyProject())
InitialClient(ls, now) ==
    [mounted |-> FALSE, isInitialMount |-> TRUE,
     doc |-> IF loadFromStorage(ls) # <<>> THEN loadFromStorage(ls)[1]
             ELSE createEmptyProject(now),
     ls |-> ls, lastSeen |-> NoStamp, syncing |-> FALSE, resetPending |-> FALSE,
     bootDone |-> FALSE, lsTimer |-> <<>>, wbTimer |-> <<>>, edits |-> 0,
     unreconciled |-> <<>>]

Absent == InitialClient(<<>>, NoStamp)

InitRemote ==
    /\ backend = "local-file"
    /\ store \in {<<>>, <<OtherDoc(1, 2)>>}
    /\ remoteWriters = IF store = <<>> THEN {} ELSE {0}
    /\ serverNow = 3
    /\ scriptNow = 3
    /\ epoch = 0
    /\ handlers = [h \in HandlerIds |-> IdleHandler]
    /\ net = [c \in Clients |-> {}]
    /\ project = createEmptyProject(NoStamp)
    /\ dispatched = <<>>

Init ==
    /\ InitRemote
    /\ active = {1}
    /\ \E ls \in LocalCopies :
          clients = [c \in Clients |-> IF c = 1 THEN InitialClient(ls, serverNow) ELSE Absent]

Next ==
    \/ \E c \in Clients : Mount(c)
    \/ \E c \in Clients : UserEdit(c)
    \/ \E c \in Clients : FlagReset(c)
    \/ \E c \in Clients : LsFire(c)
    \/ \E c \in Clients : WbFire(c)
    \/ \E c \in Clients : PollInterval(c)
    \/ \E c \in Clients : PollVisible(c)
    \/ \E c \in Clients : ServeGet(c)
    \/ \E c \in Clients : ServePut(c)
    \/ \E c \in Clients : NetFail(c)
    \/ \E c \in Clients : BootResponse(c)
    \/ \E c \in Clients : BootPutResponse(c)
    \/ \E c \in Clients : SeedResponse(c)
    \/ \E c \in Clients : PollResponse(c)
    \/ \E c \in Clients : WbResponse(c)
    \/ OtherWriter
    \/ Tick

Spec == Init /\ [][Next]_vars

\* The sessions up to the end of bootstrap: a session is followed while its
\* bootstrap-complete flag is not set (the poll never fetches before that).
Booting(c) == c \in active /\ ~clients[c].bootDone

NextLive ==
    \/ \E c \in Clients : Booting(c) /\ Mount(c)
    \/ \E c \in Clients : Booting(c) /\ UserEdit(c)
    \/ \E c \in Clients : Booting(c) /\ FlagReset(c)
    \/ \E c \in Clients : Booting(c) /\ LsFire(c)
    \/ \E c \in Clients : Booting(c) /\ WbFire(c)
    \/ \E c \in Clients : Booting(c) /\ ServeGet(c)
    \/ \E c \in Clients : Booting(c) /\ ServePut(c)
    \/ \E c \in Clients : Booting(c) /\ NetFail(c)
    \/ \E c \in Clients : Booting(c) /\ BootResponse(c)
    \/ \E c \in Clients : Booting(c) /\ BootPutResponse(c)
    \/ \E c \in Clients : Booting(c) /\ SeedResponse(c)
    \/ \E c \in Clients : Booting(c) /\ WbResponse(c)
    \/ (\E c \in Clients : Booting(c)) /\ OtherWriter
    \/ (\E c \in Clients : Booting(c)) /\ Tick

\* Every fetch is answered (or fails), every resolved promise's continuation
\* runs, and the zero-delay timer fires.
Progress(c) ==
    /\ Booting(c)
    /\ \/ FlagReset(c)
       \/ ServeGet(c)
       \/ ServePut(c)
       \/ BootResponse(c)
       \/ BootPutResponse(c)
       \/ SeedResponse(c)

Fairness == \A c \in Clients : WF_vars(Progress(c))

SpecLive == Init /\ [][NextLive]_vars /\ Fairness

----------------------------------------------------------------------------
\* One session with bursts of edits: the debounced effects

MaxBurst == 2

BurstEdit(c) == Edit(c, MaxBurst)

NextBurst ==
    \/ \E c \in Clients : Mount(c)
    \/ \E c \in Clients : BurstEdit(c)
    \/ \E c \in Clients : FlagReset(c)
    \/ \E c \in Clients : LsFire(c)
    \/ \E c \in Clients : WbFire(c)
    \/ \E c \in Clients : ServeGet(c)
    \/ \E c \in Clients : ServePut(c)
    \/ \E c \in Clients : NetFail(c)
    \/ \E c \in Clients : BootResponse(c)
    \/ \E c \in Clients : BootPutResponse(c)
    \/ \E c \in Clients : SeedResponse(c)
    \/ \E c \in Clients : WbResponse(c)
    \/ Tick

SpecBurst == Init /\ [][NextBurst]_vars

----------------------------------------------------------------------------
\* One session that may be torn down

\* The provider unmounts: every effect's cleanup runs (lines 324, 349,
\* 403-405, 418-421, 432-434). The debounce timers and the interval are
\* cleared, the visibility listener is removed, the bootstrap and interval
\* closures are marked cancelled; fetches under way stay under way.
Unmount(c) ==
    /\ c \in active
    /\ clients[c].mounted
    /\ active' = active \ {c}
    /\ clients' = [clients EXCEPT ![c].lsTimer = <<>>, ![c].wbTimer = <<>>,
                                  ![c].syncing = FALSE, ![c].resetPending = FALSE]
    /\ UNCHANGED <<svars, handlers, net, remoteWriters, rvars>>

NextTeardown ==
    \/ Next
    \/ \E c \in Clients : Unmount(c)

SpecTeardown == Init /\ [][NextTeardown]_vars

----------------------------------------------------------------------------
\* One session left alone: no other writer, at most MaxEdits user mutations,
\* and a remote that fails only for a while (until the clock reads MaxTime)

EarlyNetFail(c) ==
    /\ serverNow < MaxTime
    /\ NetFail(c)

NextSettle ==
    \/ \E c \in Clients : Mount(c)
    \/ \E c \in Clients : UserEdit(c)
    \/ \E c \in Clients : FlagReset(c)
    \/ \E c \in Clients : LsFire(c)
    \/ \E c \in Clients : WbFire(c)
    \/ \E c \in Clients : PollInterval(c)
    \/ \E c \in Clients : PollVisible(c)
    \/ \E c \in Clients : ServeGet(c)
    \/ \E c \in Clients : ServePut(c)
    \/ \E c \in Clients : EarlyNetFail(c)
    \/ \E c \in Clients : BootResponse(c)
    \/ \E c \in Clients : BootPutResponse(c)
    \/ \E c \in Clients : SeedResponse(c)
    \/ \E c \in Clients : PollResponse(c)
    \/ \E c \in Clients : WbResponse(c)
    \/ Tick

\* The provider mounts, every armed timer fires, the interval keeps firing,
\* every fetch is answered, every resolved promise's continuation runs, and
\* time passes. User events and failures have no fairness.
FairnessSettle ==
    /\ WF_vars(Tick)
    /\ \A c \in Clients :
          /\ WF_vars(Mount(c))
          /\ WF_vars(FlagReset(c))
          /\ WF_vars(LsFire(c))
          /\ WF_vars(WbFire(c))
          /\ WF_vars(PollInterval(c))
          /\ WF_vars(ServeGet(c))
          /\ WF_vars(ServePut(c))
          /\ WF_vars(BootResponse(c))
          /\ WF_vars(BootPutResponse(c))
          /\ WF_vars(SeedResponse(c))
          /\ WF_vars(PollResponse(c))
          /\ WF_vars(WbResponse(c))

SpecSettle == Init /\ [][NextSettle]_vars /\ FairnessSettle

----------------------------------------------------------------------------
\* The endpoint alone, with its PUT handlers interleaved

\* A store that exists was stamped by an earlier write, before the clocks'
\* current reading.
InitServer ==
    /\ backend \in {"local-file", "blob", "external"}
    /\ store \in {<<>>, <<OtherDoc(1, 2)>>}
    /\ serverNow = 3
    /\ scriptNow \in (IF backend = "external" THEN {3, 4} ELSE {3})
    /\ epoch = 0
    /\ handlers = [h \in HandlerIds |-> IdleHandler]
    /\ active = {}
    /\ clients = [c \in Clients |-> Absent]
    /\ net = [c \in Clients |-> {}]
    /\ remoteWriters = {}
    /\ project = createEmptyProject(NoStamp)
    /\ dispatched = <<>>

NextServer ==
    \/ \E h \in HandlerIds : PutReceive(h)
    \/ \E h \in HandlerIds : PutRead(h)
    \/ \E h \in HandlerIds : PutWriteFile(h)
    \/ \E h \in HandlerIds : PutWriteExternal(h)
    \/ \E h \in HandlerIds : PutFail(h)
    \/ TickServer
    \/ TickScript

SpecServer == InitServer /\ [][NextServer]_vars

----------------------------------------------------------------------------
\* The reducer on its own, with the import hook (useImportJson)

MaxOps == 3

TagA == <<"a">>
TagB == <<"b">>
TagAX == <<"a", "/", "x">>
TagBX == <<"b", "/", "x">>

Entry(tag, desc) == [tag |-> tag, desc |-> desc]

\* Annotations the edit dialog can save (it drops empty descriptions).
DialogAnnotations ==
    {HeadAnnotation(2, 5, <<TagAX>>, <<Entry(TagAX, "da")>>),
     HeadAnnotation(2, 5, <<TagAX, TagBX>>, <<Entry(TagAX, "da"), Entry(TagBX, "db")>>),
     HeadAnnotation(2, 5, <<TagBX, TagAX>>, <<Entry(TagBX, "db"), Entry(TagAX, "da")>>),
     HeadAnnotation(2, 5, <<TagBX, TagBX>>, <<>>)}

ReducerActions ==
    {[type |-> "SET_ANNOTATION", key |-> k, annotation |-> a] :
        k \in {headKey(2, 5), headKey(0, 0)}, a \in DialogAnnotations}
    \cup {[type |-> "DELETE_ANNOTATION", key |-> headKey(2, 5)]}
    \cup {[type |-> "ADD_TAG", tag |-> t] : t \in {TagAX, TagB}}
    \cup {[type |-> "ADD_MAJOR", major |-> m] : m \in {<<" ", "A">>, <<" ">>}}
    \cup {[type |-> "ADD_SUBTOPIC", major |-> TagA, minor |-> m] : m \in {<<"x">>, <<"y">>}}
    \cup {[type |-> "REMOVE_TAG", tag |-> t] : t \in {TagAX}}
    \cup {[type |-> "DELETE_MAJOR", major |-> m] : m \in {TagA, <<"A", " ">>, <<>>}}
    \cup {[type |-> "MOVE_TAG_TO_MAJOR", tag |-> TagAX, nextMajor |-> m] :
              m \in {TagB, <<"B">>, TagA}}
    \cup {[type |-> "RESET"]}

\* A file the user picks: whether JSON.parse accepts it and the top-level
\* fields of the parsed object, <<>> for a field the file lacks.
ImportFile(parses, modelName, annotations, tags) ==
    [parses |-> parses, modelName |-> modelName, annotations |-> annotations,
     tags |-> tags, createdAt |-> 1, updatedAt |-> 1]

FileAnnotations ==
    (headKey(2, 5) :>
        HeadAnnotation(2, 5, <<TagBX, TagAX>>, <<Entry(TagBX, ""), Entry(TagAX, "da")>>))

ImportFiles ==
    {ImportFile(TRUE, <<"Pythia-1.4B">>, <<FileAnnotations>>, <<<<TagBX, TagAX>>>>),
     ImportFile(TRUE, <<"Pythia-1.4B">>, <<EmptyMap>>, <<<<>>>>),
     ImportFile(TRUE, <<"Pythia-1.4B">>, <<FileAnnotations>>, <<>>),
     ImportFile(TRUE, <<"Pythia-1.4B">>, <<>>, <<<<TagBX, TagAX>>>>),
     ImportFile(TRUE, <<>>, <<FileAnnotations>>, <<<<TagBX, TagAX>>>>),
     ImportFile(FALSE, <<>>, <<>>, <<>>),
     [ImportFile(TRUE, <<"Pythia-1.4B">>, <<FileAnnotations>>, <<<<TagBX, TagAX>>>>)
         EXCEPT !.updatedAt = MaxTime],
     [ImportFile(TRUE, <<"Pythia-1.4B">>, <<FileAnnotations>>, <<<<TagBX, TagAX>>>>)
         EXCEPT !.updatedAt = NoStamp]}

\* The parsed object as ProjectData; a field the file lacks is undefined.
FileData(file) ==
    [modelName |-> IF file.modelName # <<>> THEN file.modelName[1] ELSE "",
     numLayers |-> NUM_LAYERS, numHeads |-> NUM_HEADS,
     annotations |-> IF file.annotations # <<>> THEN file.annotations[1] ELSE EmptyMap,
     tags |-> IF file.tags # <<>> THEN file.tags[1] ELSE <<>>,
     createdAt |-> file.createdAt, updatedAt |-> file.updatedAt]

ImportGuardWithoutTags(file) ==
    /\ file.modelName # <<>> /\ file.modelName[1] # ""
    /\ file.annotations # <<>>

\* if (data.modelName && data.annotations && data.tags)
ImportGuard(file) ==
    /\ file.modelName # <<>> /\ file.modelName[1] # ""
    /\ file.annotations # <<>>
    /\ file.tags # <<>>

Operation(action, file, before, now) ==
    [action |-> action, file |-> file, before |-> before, at |-> now,
     n |-> IF dispatched = <<>> THEN 1 ELSE dispatched[1].n + 1]

OpsLeft == IF dispatched = <<>> THEN TRUE ELSE dispatched[1].n < MaxOps

\* dispatch(action) from a component
Dispatch ==
    /\ OpsLeft
    /\ \E action \in ReducerActions :
          /\ project' = reducer(project, action, serverNow)
          /\ dispatched' = <<Operation(<<action>>, <<>>, project, serverNow)>>
    /\ UNCHANGED <<svars, handlers, cvars>>

\* input.onchange of useImportJson (lines 474-486)
ImportJson ==
    /\ OpsLeft
    /\ \E file \in ImportFiles :
          LET action == [type |-> "IMPORT_LOCAL_DATA", data |-> FileData(file)]
          IN  IF file.parses /\ ImportGuard(file)
              THEN /\ project' = reducer(project, action, serverNow)
                   /\ dispatched' = <<Operation(<<action>>, <<file>>, project, serverNow)>>
              ELSE /\ project' = project
                   /\ dispatched' = <<Operation(<<>>, <<file>>, project, serverNow)>>
    /\ UNCHANGED <<svars, handlers, cvars>>

\* Documents the endpoint may return: stamped before, at or after the
\* browser's current time, or without updatedAt.
RemoteData ==
    {[FileData(file) EXCEPT !.updatedAt = u] :
        file \in {f \in ImportFiles : f.parses /\ ImportGuard(f)},
        u \in {NoStamp, 1, 3, MaxTime}}

\* dispatch({ type: "IMPORT_DATA", data }) of applyRemoteData (line 292)
ApplyRemote ==
    /\ OpsLeft
    /\ \E data \in RemoteData :
          LET action == [type |-> "IMPORT_DATA", data |-> data]
          IN  /\ project' = reducer(project, action, serverNow)
              /\ dispatched' = <<Operation(<<action>>, <<>>, project, serverNow)>>
    /\ UNCHANGED <<svars, handlers, cvars>>

TickReducer ==
    /\ serverNow < MaxTime
    /\ serverNow' = serverNow + 1
    /\ UNCHANGED <<store, backend, scriptNow, epoch, handlers, cvars, rvars>>

InitReducer ==
    /\ backend = "local-file"
    /\ store = <<>>
    /\ serverNow = 3
    /\ scriptNow = 3
    /\ epoch = 0
    /\ handlers = [h \in HandlerIds |-> IdleHandler]
    /\ active = {}
    /\ clients = [c \in Clients |-> Absent]
    /\ net = [c \in Clients |-> {}]
    /\ remoteWriters = {}
    /\ project = createEmptyProject(2)
    /\ dispatched = <<>>

NextReducer ==
    \/ Dispatch
    \/ ImportJson
    \/ ApplyRemote
    \/ TickReducer

SpecReducer == InitReducer /\ [][NextReducer]_vars

----------------------------------------------------------------------------
\* Claims about the endpoint, checked under SpecServer

Answered(h) ==
    /\ handlers[h].pc = "done"
    /\ handlers[h].valid
    /\ handlers[h].status # 500

\* C1: two PUT handlers that carry the same precondition version V and were
\* both checked against the same stored document, at version V, are never
\* both accepted: exactly one gets 200 and the other 409 (the read, compare
\* and write of a handler is atomic with respect to the other handler).
C1_ExactlyOneAccepted ==
    \A h1, h2 \in HandlerIds :
        ( /\ h1 # h2
          /\ Answered(h1) /\ Answered(h2)
          /\ handlers[h1].expected # NoStamp
          /\ handlers[h1].expected = handlers[h2].expected
          /\ handlers[h1].cur = handlers[h1].expected
          /\ handlers[h2].cur = handlers[h2].expected
          /\ handlers[h1].readEpoch = handlers[h2].readEpoch )
        => \/ handlers[h1].status = 200 /\ handlers[h2].status = 409
           \/ handlers[h1].status = 409 /\ handlers[h2].status = 200

\* C2: of two conditional PUTs with the same precondition V issued one after
\* the other against a store at version V, the first is accepted and returns
\* a version V1 # V, the second gets 409 carrying exactly V1, and the store
\* then holds the document the first returned.
C2_SecondSeesFirst ==
    \A h1, h2 \in HandlerIds :
        ( /\ h1 \in handlers[h2].after
          /\ Answered(h1) /\ Answered(h2)
          /\ handlers[h1].expected # NoStamp
          /\ handlers[h1].expected = handlers[h2].expected
          /\ handlers[h1].cur = handlers[h1].expected
          /\ handlers[h2].readEpoch = handlers[h1].readEpoch + 1 )
        => /\ handlers[h1].status = 200
           /\ handlers[h1].respDoc[1].updatedAt # handlers[h1].expected
           /\ handlers[h2].status = 409
           /\ handlers[h2].respCur = handlers[h1].respDoc[1].updatedAt
           /\ (epoch = handlers[h1].writeEpoch => store = handlers[h1].respDoc)

\* C3: a PUT whose precondition names a version different from the updatedAt
\* of the stored document it is checked against is answered 409 with that
\* current updatedAt in the body, and the request writes nothing.
C3_StaleIsConflict ==
    \A h \in HandlerIds :
        ( /\ Answered(h)
          /\ handlers[h].expected # NoStamp
          /\ handlers[h].cur # NoStamp
          /\ handlers[h].expected # handlers[h].cur )
        => /\ handlers[h].status = 409
           /\ handlers[h].respCur = handlers[h].cur
           /\ handlers[h].writeEpoch = 0
           /\ handlers[h].respDoc = <<>>

C3_Witness ==
    \E h \in HandlerIds :
        /\ Answered(h)
        /\ handlers[h].status = 409
        /\ handlers[h].expected # NoStamp
        /\ handlers[h].cur # handlers[h].expected
        /\ store # <<>>
        /\ store[1].updatedAt = handlers[h].respCur
        /\ epoch > 0

\* C4: a PUT without precondition that meets a stored document with an
\* updatedAt is answered 428 and writes nothing; a PUT without precondition
\* is accepted only when it met no stored version token.
C4_PreconditionRequired ==
    \A h \in HandlerIds :
        ( /\ Answered(h)
          /\ handlers[h].expected = NoStamp )
        => /\ handlers[h].cur # NoStamp =>
                 /\ handlers[h].status = 428
                 /\ handlers[h].writeEpoch = 0
                 /\ handlers[h].respDoc = <<>>
           /\ handlers[h].status = 200 => handlers[h].cur = NoStamp

C4_Witness ==
    \E h, g \in HandlerIds :
        /\ Answered(h) /\ Answered(g)
        /\ handlers[h].expected = NoStamp /\ handlers[h].status = 428
        /\ handlers[g].expected = NoStamp /\ handlers[g].status = 200
        /\ store # <<>>

\* C5: the document a successful PUT returns is the stored document: while
\* no later write has happened, the store equals the returned document and
\* the next GET returns the returned updatedAt.
C5_ReturnedIsStored ==
    \A h \in HandlerIds :
        ( /\ Answered(h)
          /\ handlers[h].status = 200
          /\ handlers[h].writeEpoch = epoch )
        => /\ store = handlers[h].respDoc
           /\ GetBody(store, serverNow).updatedAt = handlers[h].respDoc[1].updatedAt

----------------------------------------------------------------------------
\* Claims about the sessions, checked under Spec

HasCausal(data) ==
    /\ headKey(2, 5) \in DOMAIN data.annotations
    /\ data.annotations[headKey(2, 5)] = CausalAnnotation

\* The fetches of session c whose responses the step consumes.
Consumed(c) == net[c] \ net'[c]

\* C6: a session whose write-back was rejected with Conflict gets no later
\* write accepted before it has adopted a remote document at least as new as
\* the version the Conflict reported.
C6_NoOverwriteAfterConflict ==
    \A c \in Clients : \A r \in net[c] :
        (r.purpose = "wb" /\ r.afterConflict) => r.stage # "ok"

\* C7: when a write-back of a bootstrapped session is answered Conflict, the
\* document stays as it is, last-seen-remote becomes the reported version and
\* a poll leaves at once; when that poll's fetch succeeds the session adopts
\* the fetched document.
C7_ConflictThenAdopt ==
    [][\A c \in Clients : \A r \in Consumed(c) :
          /\ (r.purpose = "wb" /\ r.stage = "conflict" /\ clients[c].bootDone) =>
                /\ clients'[c].doc = clients[c].doc
                /\ clients'[c].lastSeen = r.cur
                /\ \E q \in net'[c] : q.purpose = "poll" /\ q.stage = "sent"
          /\ (r.purpose = "poll" /\ r.viaConflict /\ r.stage = "ok") =>
                clients'[c].doc = r.resp[1]
      ]_vars

\* C8: when the store is missing and local storage holds the project with the
\* L2H5 annotation, then once bootstrap has completed, with no edit made and
\* nobody else having written, a GET returns a document with that annotation
\* and the in-memory document has it too.
C8_BootstrapSeeds ==
    [][\A c \in Clients : \A r \in Consumed(c) :
          ( /\ ~clients[c].bootDone /\ clients'[c].bootDone
            /\ clients'[c].edits = 0
            /\ remoteWriters' \subseteq {c}
            /\ r.purpose \in {"boot", "bootput", "seed"}
            /\ r.localData # <<>>
            /\ HasCausal(r.localData[1]) )
          => /\ HasCausal(GetBody(store', serverNow'))
             /\ HasCausal(clients'[c].doc)
      ]_vars

\* C9: when bootstrap fetched a remote document stamped T1 and the in-memory
\* copy has neither annotations nor tags and is stamped T0 < T1, the session
\* takes the remote document as it is, stamp T1 included, records T1 as
\* last-seen-remote, and bootstrap ends without sending or scheduling a write.
C9_BootstrapAdoptsNewerRemote ==
    [][\A c \in Clients : \A r \in Consumed(c) :
          ( /\ r.purpose = "boot" /\ r.stage = "ok"
            /\ ~hasMeaningfulData(clients[c].doc)
            /\ toMillis(clients[c].doc.updatedAt) < toMillis(r.resp[1].updatedAt) )
          => /\ clients'[c].doc = r.resp[1]
             /\ clients'[c].doc.updatedAt = r.resp[1].updatedAt
             /\ clients'[c].lastSeen = r.resp[1].updatedAt
             /\ clients'[c].bootDone
             /\ clients'[c].wbTimer = <<>>
             /\ net'[c] = net[c] \ {r}
      ]_vars

C9_Witness ==
    \E c \in active :
        /\ clients[c].bootDone
        /\ clients[c].edits = 0
        /\ clients[c].ls = <<createEmptyProject(1)>>
        /\ clients[c].doc = OtherDoc(1, 2)
        /\ store = <<clients[c].doc>>
        /\ clients[c].lastSeen = 2
        /\ clients[c].wbTimer = <<>>
        /\ net[c] = {}
        /\ remoteWriters = {0}

----------------------------------------------------------------------------
\* Claims about the reducer and the import hook, checked under SpecReducer

\* The last operation, once there is one.
LastOp == dispatched[1]

Did(type) ==
    IF dispatched = <<>> THEN FALSE
    ELSE LastOp.action # <<>> /\ LastOp.action[1].type = type

NoDuplicates(seq) == \A i, j \in 1..Len(seq) : seq[i] = seq[j] => i = j

Count(seq, x) == Cardinality({i \in 1..Len(seq) : seq[i] = x})

\* C11: picking a file that lacks modelName, annotations or tags dispatches
\* nothing and leaves the document as it was, updatedAt included.
C11_IncompleteImportIgnored ==
    IF dispatched = <<>> THEN TRUE
    ELSE ( /\ LastOp.file # <<>>
           /\ \/ LastOp.file[1].modelName = <<>>
              \/ LastOp.file[1].annotations = <<>>
              \/ LastOp.file[1].tags = <<>> )
         => /\ LastOp.action = <<>>
            /\ project = LastOp.before

C11_Witness ==
    IF dispatched = <<>> THEN FALSE
    ELSE /\ LastOp.file # <<>>
         /\ LastOp.file[1].parses
         /\ LastOp.file[1].modelName # <<>>
         /\ LastOp.file[1].annotations # <<>>
         /\ LastOp.file[1].tags = <<>>
         /\ project = LastOp.before
         /\ project.annotations # EmptyMap
         /\ project.updatedAt < LastOp.at

\* C12: an upsert on a project whose tag list has no duplicates keeps the
\* tag list free of duplicates, keeps the tags it had in their order, and
\* leaves every tag of the upserted annotation in the list exactly once, new
\* tags appended in the order the annotation first names them.
C12_UpsertKeepsTagsUnique ==
    (Did("SET_ANNOTATION") /\ NoDuplicates(LastOp.before.tags)) =>
        LET old == LastOp.before.tags
            new == project.tags
            annTags == LastOp.action[1].annotation.tags
        IN  /\ NoDuplicates(new)
            /\ Len(new) >= Len(old)
            /\ SubSeq(new, 1, Len(old)) = old
            /\ \A t \in Range(annTags) : Count(new, t) = 1
            /\ \A i, j \in (Len(old) + 1)..Len(new) :
                  i < j => IndexOf(annTags, new[i]) < IndexOf(annTags, new[j])

C12_Witness ==
    /\ Did("SET_ANNOTATION")
    /\ LastOp.before.tags = <<TagAX>>
    /\ LastOp.action[1].annotation.tags = <<TagBX, TagAX>>
    /\ project.tags = <<TagAX, TagBX>>
    /\ Cardinality(DOMAIN project.annotations) = 2

\* C13: deleting major M takes exactly the tags equal to M or starting with
\* "M/" out of the tag list and out of every annotation's tags and
\* descriptions, and leaves every other tag and description in place.
C13_DeleteMajorCascades ==
    Did("DELETE_MAJOR") =>
        LET M == normalizeCategoryPart(LastOp.action[1].major)
            Gone(t) == t = M \/ StartsWith(t, Append(M, "/"))
            Stays(tags) == {t \in Range(tags) : ~Gone(t)}
            StaysEntry(entries) == {e \in Range(entries) : ~Gone(e.tag)}
            old == LastOp.before
        IN  M # <<>> =>
              /\ project.tags = FilterSeq(old.tags, Stays(old.tags))
              /\ DOMAIN project.annotations = DOMAIN old.annotations
              /\ \A k \in DOMAIN old.annotations :
                    /\ project.annotations[k].tags =
                          FilterSeq(old.annotations[k].tags, Stays(old.annotations[k].tags))
                    /\ project.annotations[k].descriptions =
                          FilterSeq(old.annotations[k].descriptions,
                                    StaysEntry(old.annotations[k].descriptions))

\* C14: reparenting a/x to major b leaves, in every annotation that carried
\* b/x, the tag b/x exactly once and a/x not at all, and the description
\* stored under b/x is the one b/x had before, in whatever order the
\* annotation's entries stood.
C14_ReparentKeepsDescription ==
    (Did("MOVE_TAG_TO_MAJOR") /\ LastOp.action[1].tag = TagAX
        /\ normalizeCategoryPart(LastOp.action[1].nextMajor) = TagB) =>
        \A k \in DOMAIN LastOp.before.annotations :
            LET old == LastOp.before.annotations[k]
                new == project.annotations[k]
            IN  Includes(old.tags, TagBX) =>
                  /\ Count(new.tags, TagBX) = 1
                  /\ Count(new.tags, TagAX) = 0
                  /\ \A i \in 1..Len(old.descriptions) :
                        old.descriptions[i].tag = TagBX =>
                            \E j \in 1..Len(new.descriptions) :
                                new.descriptions[j] = old.descriptions[i]

----------------------------------------------------------------------------
\* Claims about the sessions' bootstrap and write completion, under Spec

\* C15: when a write completes while the in-memory document carries a user
\* mutation made after the write's body was captured (the mutation's own
\* write-back is still pending), the completion keeps the mutation: the
\* L2H5 annotation is afterwards as the mutation left it.
C15_InFlightEditSurvives ==
    [][\A c \in Clients : \A r \in Consumed(c) :
          ( /\ IsPut(r)
            /\ r.stage = "ok"
            /\ clients[c].doc # r.body[1]
            /\ clients[c].wbTimer = <<clients[c].doc>> )
          => (HasCausal(clients'[c].doc) <=> HasCausal(clients[c].doc))
      ]_vars

\* C16: when bootstrap fetched a remote document and the in-memory document
\* has annotations or tags and a strictly newer updatedAt, the step keeps the
\* in-memory document and sends a write of it whose precondition is the
\* remote's updatedAt; when that write succeeds the session takes the
\* returned document and records its updatedAt as last-seen-remote.
C16_BootstrapPushesNewerLocal ==
    [][\A c \in Clients : \A r \in Consumed(c) :
          /\ ( /\ r.purpose = "boot" /\ r.stage = "ok"
               /\ hasMeaningfulData(clients[c].doc)
               /\ toMillis(clients[c].doc.updatedAt) > toMillis(r.resp[1].updatedAt) )
             => /\ clients'[c].doc = clients[c].doc
                /\ \E q \in net'[c] :
                      /\ q.purpose = "bootput" /\ q.stage = "sent"
                      /\ q.body = <<clients[c].doc>>
                      /\ q.expected = r.resp[1].updatedAt
                      /\ net'[c] = (net[c] \ {r}) \cup {q}
          /\ (r.purpose = "bootput" /\ r.stage = "ok")
             => /\ clients'[c].doc = r.resp[1]
                /\ clients'[c].lastSeen = r.resp[1].updatedAt
      ]_vars

C16_Witness ==
    \E c \in active :
        /\ clients[c].bootDone
        /\ clients[c].edits = 0
        /\ clients[c].ls = <<CausalDoc(1, 3)>>
        /\ remoteWriters = {0, c}
        /\ store = <<clients[c].doc>>
        /\ HasCausal(clients[c].doc)
        /\ clients[c].lastSeen = store[1].updatedAt
        /\ net[c] = {}

\* C17: when the bootstrap write is answered Conflict, last-seen-remote
\* becomes the current updatedAt the endpoint reported, the in-memory
\* document stays as it is, and bootstrap ends without sending another write.
C17_BootstrapConflictStops ==
    [][\A c \in Clients : \A r \in Consumed(c) :
          (r.purpose = "bootput" /\ r.stage = "conflict")
          => /\ clients'[c].lastSeen = r.cur
             /\ clients'[c].doc = clients[c].doc
             /\ clients'[c].bootDone
             /\ net'[c] = net[c] \ {r}
      ]_vars

C17_Witness ==
    \E c \in active :
        /\ clients[c].bootDone
        /\ clients[c].edits = 0
        /\ clients[c].unreconciled = <<>>
        /\ clients[c].doc = CausalDoc(1, 3)
        /\ remoteWriters = {0}
        /\ store # <<>>
        /\ store[1].updatedAt = 3
        /\ clients[c].lastSeen = 3
        /\ net[c] = {}

\* C18: when the bootstrap fetch fails and local storage holds a project,
\* bootstrap keeps the in-memory document, sends no write and sets
\* last-seen-remote to the local project's updatedAt.
C18_FetchFailureKeepsLocal ==
    [][\A c \in Clients : \A r \in Consumed(c) :
          ( /\ r.purpose = "boot" /\ r.stage = "sent"
            /\ \A q \in net'[c] : q.purpose # "boot"
            /\ r.localData # <<>> )
          => /\ clients'[c].doc = clients[c].doc
             /\ clients'[c].lastSeen = r.localData[1].updatedAt
             /\ \A q \in net'[c] : IsPut(q) => q \in net[c]
      ]_vars

\* C20: while a session's bootstrap-complete flag is not set, it has no poll
\* fetch and no write-back PUT under way.
C20_NothingBeforeBootstrap ==
    \A c \in Clients :
        ~clients[c].bootDone => \A r \in net[c] : r.purpose \notin {"poll", "wb"}

\* C19: a mounted session's bootstrap eventually sets the bootstrap-complete
\* flag, whichever way its fetch and its write end.
C19_BootstrapCompletes ==
    \A c \in Clients : clients[c].mounted ~> clients[c].bootDone

\* Bootstrap completed after its fetch failed and its seeding write failed.
C19_Witness ==
    \E c \in active :
        /\ clients[c].bootDone
        /\ clients[c].lastSeen = NoStamp
        /\ clients[c].edits = 0
        /\ clients[c].doc = CausalDoc(1, 1)
        /\ store = <<>>
        /\ net[c] = {}

----------------------------------------------------------------------------
\* Claims about the debounced effects and the poll, checked under Spec

\* C21: a session whose user has dispatched nothing has no write-back PUT
\* under way: the document of the first render is never sent by the
\* write-back.
C21_FirstRenderNoPut ==
    \A c \in Clients :
        clients[c].edits = 0 => \A r \in net[c] : r.purpose # "wb"

\* The session's document is ahead of what it last saw of the remote.
LocalAhead(c) ==
    /\ hasMeaningfulData(clients[c].doc)
    /\ toMillis(clients[c].doc.updatedAt) > toMillis(clients[c].lastSeen)

\* C22: when a poll's fetch returns and the in-memory document has
\* annotations or tags and an updatedAt newer than last-seen-remote, the
\* poll leaves the document and last-seen-remote as they are, whatever it
\* fetched.
C22_PollSkipsWhenLocalAhead ==
    [][\A c \in Clients : \A r \in Consumed(c) :
          (r.purpose = "poll" /\ r.stage = "ok" /\ LocalAhead(c))
          => /\ clients'[c].doc = clients[c].doc
             /\ clients'[c].lastSeen = clients[c].lastSeen
      ]_vars

\* A fetched remote document, newer than last-seen-remote and different from
\* the document in memory, is about to be handled by a poll that skips.
C22_Witness ==
    \E c \in active : \E r \in net[c] :
        /\ r.purpose = "poll" /\ r.stage = "ok"
        /\ ~clients[c].resetPending
        /\ LocalAhead(c)
        /\ clients[c].lastSeen # NoStamp
        /\ toMillis(r.resp[1].updatedAt) > toMillis(clients[c].lastSeen)
        /\ r.resp[1] # clients[c].doc

\* C23: a poll that is not skipped replaces the document by the fetched one
\* exactly when the fetched updatedAt is newer than last-seen-remote, and
\* either way last-seen-remote is the fetched updatedAt afterwards; a poll
\* whose fetch fails changes neither.
C23_PollAdoptsIffNewer ==
    [][\A c \in Clients : \A r \in Consumed(c) :
          /\ (r.purpose = "poll" /\ r.stage = "ok" /\ ~LocalAhead(c))
             => /\ IF toMillis(r.resp[1].updatedAt) > toMillis(clients[c].lastSeen)
                   THEN clients'[c].doc = r.resp[1] /\ clients'[c].syncing
                   ELSE clients'[c].doc = clients[c].doc
                           /\ clients'[c].syncing = clients[c].syncing
                /\ clients'[c].lastSeen = r.resp[1].updatedAt
          /\ ( /\ r.purpose = "poll" /\ r.stage = "sent"
               /\ \A q \in net'[c] : q.purpose # "poll" )
             => /\ clients'[c].doc = clients[c].doc
                /\ clients'[c].lastSeen = clients[c].lastSeen
      ]_vars

\* A poll that is not skipped is about to handle a fetched document older
\* than last-seen-remote.
C23_Witness ==
    \E c \in active : \E r \in net[c] :
        /\ r.purpose = "poll" /\ r.stage = "ok"
        /\ ~clients[c].resetPending
        /\ ~LocalAhead(c)
        /\ toMillis(r.resp[1].updatedAt) < toMillis(clients[c].lastSeen)
        /\ r.resp[1] # clients[c].doc

\* The step is the write-back timer of session c firing.
WbTimerFires(c) ==
    /\ clients[c].wbTimer # <<>>
    /\ clients' = [clients EXCEPT ![c].wbTimer = <<>>]

\* C24: when the write-back timer fires and the in-memory document's
\* updatedAt is not newer than last-seen-remote, no request is sent;
\* otherwise exactly one PUT of the in-memory document is sent, and its
\* precondition is last-seen-remote as it is at that moment.
C24_WriteBackOnlyWhenNewer ==
    [][\A c \in Clients :
          WbTimerFires(c) =>
              IF toMillis(clients[c].doc.updatedAt) <= toMillis(clients[c].lastSeen)
              THEN net' = net
              ELSE \E q \in net'[c] \ net[c] :
                      /\ net'[c] = net[c] \cup {q}
                      /\ q.purpose = "wb" /\ q.stage = "sent"
                      /\ q.body = <<clients[c].doc>>
                      /\ q.expected = clients[c].lastSeen
      ]_vars

\* The write-back of an edit has just been sent with the updatedAt of the
\* remote document the session adopted as its precondition.
C24_Witness ==
    \E c \in active : \E r \in net[c] :
        /\ r.purpose = "wb" /\ r.stage = "sent"
        /\ clients[c].edits = 1
        /\ clients[c].wbTimer = <<>>
        /\ r.body = <<clients[c].doc>>
        /\ r.expected # NoStamp
        /\ r.expected = clients[c].lastSeen
        /\ store # <<>>
        /\ r.expected = store[1].updatedAt

\* The step calls applyRemoteData in session c: the zero-delay timer that
\* resets the applying-remote flag becomes pending.
AppliesRemote(c) ==
    ~clients[c].resetPending /\ clients'[c].resetPending

\* C25: a step that adopts a remote snapshot (at bootstrap, in a poll, or
\* as the answer to a write) leaves no write-back timer pending and sends no
\* PUT, and no write-back timer is pending while the applying-remote flag is
\* set: the adopted document is not sent back.
C25_AdoptionIsNotEchoed ==
    [][\A c \in Clients :
          /\ AppliesRemote(c)
             => /\ clients'[c].wbTimer = <<>>
                /\ \A q \in net'[c] : IsPut(q) => q \in net[c]
          /\ clients'[c].syncing => clients'[c].wbTimer = <<>>
      ]_vars

\* The session has just adopted the remote document another writer stored,
\* after its first render had armed the write-back timer.
C25_Witness ==
    \E c \in active :
        /\ clients[c].resetPending
        /\ clients[c].syncing
        /\ clients[c].edits = 0
        /\ store # <<>>
        /\ clients[c].doc = store[1]
        /\ clients[c].lastSeen = store[1].updatedAt
        /\ clients[c].wbTimer = <<>>
        /\ clients[c].lsTimer = <<clients[c].doc>>
        /\ net[c] = {}

\* Session c holds a change the remote does not have and nothing is under
\* way that would send it: no write-back timer, no write-back PUT.
Unpushed(c) ==
    /\ LocalAhead(c)
    /\ clients[c].wbTimer = <<>>
    /\ \A q \in net[c] : q.purpose # "wb"

\* C26: a write-back that fails with an error other than Conflict leaves the
\* document and last-seen-remote as they are, and the next poll of a session
\* holding such an unpushed change leads to a new write attempt.
C26_FailedWriteIsRetried ==
    [][\A c \in Clients : \A r \in Consumed(c) :
          /\ ( /\ r.purpose = "wb" /\ r.stage = "sent"
               /\ \A q \in net'[c] : q.purpose # "wb" )
             => /\ clients'[c].doc = clients[c].doc
                /\ clients'[c].lastSeen = clients[c].lastSeen
          /\ (r.purpose = "poll" /\ r.stage = "ok" /\ Unpushed(c))
             => \/ \E q \in net'[c] : q.purpose = "wb"
                \/ clients'[c].wbTimer # <<>>
      ]_vars

----------------------------------------------------------------------------
\* Claims about bursts of edits, checked under SpecBurst

\* C27: every document change leaves at most one local-save timer and at
\* most one write-back timer pending, each holding the document as it is
\* after the change; when a timer fires it saves, or sends, the document as
\* it is then, and no timer of an earlier change is left to fire.
C27_BurstCoalesces ==
    [][\A c \in Clients :
          /\ Len(clients'[c].lsTimer) <= 1
          /\ Len(clients'[c].wbTimer) <= 1
          /\ clients'[c].edits # clients[c].edits
             => /\ clients'[c].lsTimer = <<clients'[c].doc>>
                /\ clients'[c].wbTimer \in {<<>>, <<clients'[c].doc>>}
                /\ net' = net
                /\ clients'[c].ls = clients[c].ls
          /\ (clients[c].lsTimer # <<>> /\ clients'[c].lsTimer = <<>>)
             => clients'[c].ls = <<clients[c].doc>>
          /\ \A q \in net'[c] \ net[c] :
                (q.purpose = "wb" /\ q.stage = "sent")
                => /\ q.body = <<clients[c].doc>>
                   /\ clients'[c].wbTimer = <<>>
      ]_vars

\* Two edits followed each other before any timer fired (the annotation was
\* saved, then deleted): one timer of each kind is pending, with the
\* document after the second edit; nothing of the first edit was saved or
\* sent.
C27_Witness ==
    \E c \in active :
        /\ clients[c].edits = 2
        /\ DOMAIN clients[c].doc.annotations = {}
        /\ clients[c].doc.tags = <<"reasoning/causal">>
        /\ clients[c].lsTimer = <<clients[c].doc>>
        /\ clients[c].wbTimer = <<clients[c].doc>>
        /\ clients[c].ls = <<>>
        /\ \A q \in net[c] : q.purpose # "wb"
        /\ remoteWriters = {}

----------------------------------------------------------------------------
\* Claims about teardown, checked under SpecTeardown

\* C28: once a session's provider is torn down, no debounce timer is
\* pending, and no step changes its document, its last-seen-remote or its
\* bootstrap-complete flag.
C28_TeardownSilences ==
    [][\A c \in Clients :
          (clients[c].mounted /\ c \notin active)
          => /\ clients'[c].lsTimer = <<>>
             /\ clients'[c].wbTimer = <<>>
             /\ clients'[c].doc = clients[c].doc
             /\ clients'[c].bootDone = clients[c].bootDone
             /\ clients'[c].lastSeen = clients[c].lastSeen
      ]_vars

----------------------------------------------------------------------------
\* Further claims about the reducer, checked under SpecReducer

\* C29: after a file import the document's updatedAt is the time of the
\* import, whatever updatedAt the file carries; after the import of a remote
\* document whose updatedAt is not empty the document's updatedAt is that
\* document's. Either way the rest of the document is the imported one.
C29_ImportStamps ==
    /\ Did("IMPORT_LOCAL_DATA")
       => /\ project.updatedAt = LastOp.at
          /\ project.annotations = LastOp.action[1].data.annotations
          /\ project.tags = LastOp.action[1].data.tags
    /\ (Did("IMPORT_DATA") /\ LastOp.action[1].data.updatedAt # NoStamp)
       => /\ project.updatedAt = LastOp.action[1].data.updatedAt
          /\ project.annotations = LastOp.action[1].data.annotations
          /\ project.tags = LastOp.action[1].data.tags

\* A file stamped later than the current time was imported.
C29_Witness ==
    /\ Did("IMPORT_LOCAL_DATA")
    /\ LastOp.file # <<>>
    /\ LastOp.file[1].updatedAt > LastOp.at
    /\ project.updatedAt = LastOp.at
    /\ project.annotations # EmptyMap

\* C30: after REMOVE_TAG of T the project's tag list is the old one without
\* T, and every annotation has its old tags without T and its old
\* descriptions without the entry of T.
C30_RemoveTagCascades ==
    Did("REMOVE_TAG") =>
        LET T == LastOp.action[1].tag
            old == LastOp.before
        IN  /\ project.tags = FilterSeq(old.tags, Range(old.tags) \ {T})
            /\ DOMAIN project.annotations = DOMAIN old.annotations
            /\ \A k \in DOMAIN old.annotations :
                  /\ project.annotations[k].tags =
                        FilterSeq(old.annotations[k].tags,
                                  Range(old.annotations[k].tags) \ {T})
                  /\ project.annotations[k].descriptions =
                        FilterSeq(old.annotations[k].descriptions,
                                  {e \in Range(old.annotations[k].descriptions) : e.tag # T})

\* The mutations a component dispatches: upsert, delete annotation, add tag,
\* add major, remove tag, delete major, reparent.
Mutations ==
    {"SET_ANNOTATION", "DELETE_ANNOTATION", "ADD_TAG", "ADD_MAJOR", "REMOVE_TAG",
     "DELETE_MAJOR", "MOVE_TAG_TO_MAJOR"}

DidMutation ==
    IF dispatched = <<>> THEN FALSE
    ELSE LastOp.action # <<>> /\ LastOp.action[1].type \in Mutations

\* Every tag of every annotation is in the project's tag list.
TagsListed(data) ==
    \A k \in DOMAIN data.annotations :
        Range(data.annotations[k].tags) \subseteq Range(data.tags)

\* C31: the empty project lists every annotation tag, and every mutation
\* applied to a project that does leaves a project that does; so after any
\* sequence of mutations from the empty project every tag of an annotation
\* is in the project's tag list.
C31_AnnotationTagsListed ==
    /\ TagsListed(createEmptyProject(NoStamp))
    /\ (DidMutation /\ TagsListed(LastOp.before)) => TagsListed(project)

\* C32: an action other than a remote-sourced import that changes the
\* document leaves a document whose updatedAt is later than the updatedAt of
\* the document it was applied to.
C32_UpdatedAtIncreases ==
    IF dispatched = <<>> THEN TRUE
    ELSE ( /\ LastOp.action # <<>>
           /\ LastOp.action[1].type # "IMPORT_DATA"
           /\ project # LastOp.before )
         => toMillis(project.updatedAt) > toMillis(LastOp.before.updatedAt)

\* The tag an add operation is to append: the tag itself, the normalised
\* major, or "major/minor" for a subtopic.
AddedTag(action) ==
    CASE action.type = "ADD_TAG" -> action.tag
      [] action.type = "ADD_MAJOR" -> normalizeCategoryPart(action.major)
      [] OTHER -> action.major \o <<"/">> \o action.minor

\* C33: an add operation (tag, major, subtopic) appends its tag to the tag
\* list when the list does not have it and changes nothing else but
\* updatedAt; when the list has it the document stays as it was; and
\* applying the same operation once more changes nothing.
C33_AddIsIdempotentAppend ==
    IF dispatched = <<>> THEN TRUE
    ELSE ( /\ LastOp.action # <<>>
           /\ LastOp.action[1].type \in {"ADD_TAG", "ADD_MAJOR", "ADD_SUBTOPIC"}
           /\ AddedTag(LastOp.action[1]) # <<>> )
         => LET tag == AddedTag(LastOp.action[1])
                old == LastOp.before
            IN  /\ IF Includes(old.tags, tag)
                   THEN project = old
                   ELSE /\ project.tags = old.tags \o <<tag>>
                        /\ project.annotations = old.annotations
                /\ \A now \in 0..MaxTime :
                      reducer(project, LastOp.action[1], now) = project

\* Every annotation of the document has at least one tag.
AllTagged(data) ==
    \A k \in DOMAIN data.annotations : Len(data.annotations[k].tags) >= 1

\* C34: a mutation applied to a document in which every annotation has a
\* tag (an upsert with an annotation that has a tag) leaves a document in
\* which every annotation has a tag; so no sequence of such mutations
\* leaves an annotation without tags behind.
C34_NoTaglessAnnotation ==
    ( /\ DidMutation
      /\ AllTagged(LastOp.before)
      /\ LastOp.action[1].type = "SET_ANNOTATION"
            => Len(LastOp.action[1].annotation.tags) >= 1 )
    => AllTagged(project)

----------------------------------------------------------------------------
\* Further claims about the session, checked under Spec

\* C35: the precondition a write-back carries is the session's last-seen
\* remote version, and the endpoint accepts a write-back whose precondition
\* equals the updatedAt of the document it has stored: the request is
\* answered 200 and the store takes its payload, never 428 or 409.
C35_MatchingWriteBackAccepted ==
    [][\A c \in Clients :
          /\ \A q \in net'[c] \ net[c] :
                (q.purpose = "wb" /\ q.stage = "sent") => q.expected = clients[c].lastSeen
          /\ \A r \in Consumed(c) :
                ( /\ r.purpose = "wb"
                  /\ r.stage = "sent"
                  /\ store # <<>>
                  /\ r.expected = getUpdatedAt(store)
                  /\ \E q \in net'[c] : q.purpose = "wb" /\ q.stage # "sent" )
                => /\ \E q \in net'[c] : q.purpose = "wb" /\ q.stage = "ok"
                   /\ store' = <<StampPayload(r.body[1], serverNow)>>]_vars

\* A write-back sent with the version of the document stored at the start
\* was accepted.
C35_Witness ==
    \E c \in Clients : \E r \in net[c] :
        /\ r.purpose = "wb"
        /\ r.stage = "ok"
        /\ r.expected = OtherDoc(1, 2).updatedAt

\* C36: a GET of an untouched remote returns the version the session saw
\* before, also when no document is stored. While the store is missing (no
\* PUT was ever accepted) a poll of a session that has seen a remote version
\* brings no newer version and does not replace the session's document.
C36_PollOfUntouchedRemoteIsStable ==
    [][\A c \in Clients : \A r \in Consumed(c) :
          ( /\ r.purpose = "poll"
            /\ r.stage = "ok"
            /\ store = <<>>
            /\ clients[c].lastSeen # NoStamp )
          => /\ toMillis(r.resp[1].updatedAt) <= toMillis(clients[c].lastSeen)
             /\ clients'[c].doc = clients[c].doc]_vars

\* C37: last-seen-remote never moves back: once bootstrap is over, every
\* step of a session, in every interleaving of poll and write completions,
\* leaves it at a version at least as new as the one it held.
C37_LastSeenNeverMovesBack ==
    [][\A c \in Clients :
          clients[c].bootDone =>
              toMillis(clients'[c].lastSeen) >= toMillis(clients[c].lastSeen)]_vars

\* C38: the seed write of bootstrap, sent without a precondition when no
\* remote document was obtained, never overwrites a stored remote document:
\* the endpoint rejects it and the store is unchanged.
C38_SeedNeverOverwrites ==
    [][\A c \in Clients : \A r \in Consumed(c) :
          ( /\ r.purpose = "seed"
            /\ r.stage = "sent"
            /\ r.expected = NoStamp
            /\ store # <<>>
            /\ \E q \in net'[c] : q.purpose = "seed" /\ q.stage # "sent" )
          => /\ \E q \in net'[c] : q.purpose = "seed" /\ q.stage = "conflict"
             /\ store' = store]_vars

\* A seed write met a stored document and was rejected.
C38_Witness ==
    \E c \in Clients : \E r \in net[c] :
        /\ r.purpose = "seed"
        /\ r.stage = "conflict"
        /\ store # <<>>
        /\ r.cur = getUpdatedAt(store)

\* C39: the flag set by applyRemoteData suppresses the write-back of the
\* adoption only: a user mutation dispatched while the flag is still set
\* (its zero-delay reset is pending) leaves a write-back timer armed with
\* the mutated document.
C39_EditDuringAdoptionIsWrittenBack ==
    [][\A c \in Clients :
          ( /\ clients'[c].edits = clients[c].edits + 1
            /\ clients[c].syncing
            /\ clients[c].resetPending )
          => clients'[c].wbTimer = <<clients'[c].doc>>]_vars

----------------------------------------------------------------------------
\* Convergence, checked under SpecSettle

\* The remote document's content equals the session's document and
\* last-seen-remote is the remote's updatedAt; a missing store counts as an
\* empty remote document without a version.
Converged(c) ==
    /\ GetBody(store, serverNow).annotations = clients[c].doc.annotations
    /\ GetBody(store, serverNow).tags = clients[c].doc.tags
    /\ store # <<>> => clients[c].lastSeen = store[1].updatedAt

\* C40: once the user mutates no more, no other writer changes the remote
\* and every request succeeds, the session and the remote converge, also
\* after a write that was rejected or failed.
C40_Convergence ==
    \A c \in Clients : []<>Converged(c)

====
